---- MODULE Spec2Model ----
(***************************************************************************)
(* Model of mediawiki-item-discovery.py: endpoint resolution, the site     *)
(* descriptor query, the paginated walks (get_all_pages, get_all_images),  *)
(* the special-page query and the orchestration in main().                 *)
(*                                                                         *)
(* Strings are sequences of tokens; a JSON object is a function whose      *)
(* DOMAIN is the set of keys present ('k' in d  is  k \in DOMAIN d).       *)
(* One action is one network round trip together with all the code that    *)
(* runs until the next one.                                                *)
(***************************************************************************)
EXTENDS Integers, Sequences, FiniteSets, TLC

VARIABLES
    wiki_url,      \* main's argument (args.url)
    argDelay,      \* args.delay as parsed from the command line (<<>> when the flag is absent)
    delaySeconds,  \* the module-level global read by delay()
    phase,         \* where main() is
    halt,          \* "no" while running or finished normally, else how the run ended
    api_url,       \* main's local api_url (None is <<"None">>)
    template_url,  \* main's local template_url
    namespaces,    \* main's local namespaces, a sequence of namespace objects in table order
    nsIdx,         \* position of the for-loop over namespaces.values()
    params,        \* the walk's local params
    all_pages,     \* the walk's local all_pages / all_images
    data,          \* the walk's local data (last decoded response of walk histNo)
    sink,          \* lines of items.txt
    callNo,        \* history: number of get_all_pages / get_all_images calls begun
    histNo,        \* history: the walk (0: none yet) that fetched, lastReq and data belong to
    callee,        \* history: the function that trace belongs to
    fetched,       \* history: the pages of the listing that the requests of walk histNo asked for
    lastReq,       \* history: the parameter set of the latest request of walk histNo
    modernSoFar,   \* history: every response of walk histNo had a well-formed query and no legacy-only continuation
    trace,         \* history: requests and sleeps of the latest call of callee, in order
    issued,        \* history: number of requests issued so far, per kind
    phaseLog,      \* history: phases of the requests and sink writes so far (repeats collapsed)
    walked,        \* history: gapnamespace of every get_all_pages call so far
    results,       \* history: the list handed to each save_items call so far
    sink0,         \* history: items.txt before the run
    soup,          \* history: the page get_api_url parsed (<<>>: none), kept until get_site_info is called
    firstData,     \* history: the first decoded response of walk histNo
    special_pages_raw, \* get_special_pages's local special_pages_raw (<<>> before it is assigned)
    sink2          \* history: items.txt of a second run that is given the same responses

vars == <<wiki_url, argDelay, delaySeconds, phase, halt, api_url, template_url,
          namespaces, nsIdx, params, all_pages, data, sink, callNo, histNo,
          callee, fetched, lastReq, modernSoFar, trace, issued, phaseLog, walked, results, sink0,
          soup, firstData, special_pages_raw, sink2>>

-----------------------------------------------------------------------------
(* Bounds *)

\* A server answers with a continuation only while fewer than MaxReqs
\* requests of the walk have been issued.
MaxReqs == 2


-----------------------------------------------------------------------------
(* Generic helpers *)

None == <<"None">>

\* a merge in which the keys already in p keep their value
UpdateKeepExisting(p, c) ==
    [k \in (DOMAIN p) \cup (DOMAIN c) |-> IF k \in DOMAIN p THEN p[k] ELSE c[k]]

\* dict.update(): keys of c overwrite, other keys of p stay
Update(p, c) == [k \in (DOMAIN p) \cup (DOMAIN c) |-> IF k \in DOMAIN c THEN c[k] ELSE p[k]]

RECURSIVE Flatten(_)
Flatten(ss) == IF ss = <<>> THEN <<>> ELSE Head(ss) \o Flatten(Tail(ss))

Last(s) == s[Len(s)]

\* Append x to a log unless it repeats the last element
Collapse(log, x) == IF log # <<>> /\ Last(log) = x THEN log ELSE Append(log, x)

-----------------------------------------------------------------------------
(* URLs as token sequences *)

SchemeTokens == {"https:", "http:"}
NetlocTokens == {"//wiki.example", "//cdn.example"}
QueryTokens  == {"?action=rsd", "?title=api.php"}

\* tokens whose text contains the substring "api.php"
MarkerTokens == {"/api.php", "?title=api.php"}

\* s.endswith("api.php")
EndsWithApiPhp(s) == s # <<>> /\ s[Len(s)] = "/api.php"

\* "api.php" in s
HasApiPhp(s) == \E i \in 1..Len(s) : s[i] \in MarkerTokens

\* s.split('?')[0]
RECURSIVE BeforeQuery(_)
BeforeQuery(s) ==
    IF s = <<>> \/ Head(s) \in QueryTokens THEN <<>>
    ELSE <<Head(s)>> \o BeforeQuery(Tail(s))

\* urlparse(s).scheme, written with its trailing ":" ("" gives ":")
UrlScheme(s) == IF s # <<>> /\ s[1] \in SchemeTokens THEN s[1] ELSE ":"

\* urlparse(s).netloc, written with its leading "//" ("" gives "//")
UrlNetloc(s) ==
    LET r == IF s # <<>> /\ s[1] \in SchemeTokens THEN Tail(s) ELSE s
    IN  IF r # <<>> /\ r[1] \in NetlocTokens THEN r[1] ELSE "//"

\* f"{parsed_url.scheme}://{parsed_url.netloc}/api.php"
CssApiUrl(css_url) == <<UrlScheme(css_url), UrlNetloc(css_url), "/api.php">>

\* urljoin(base, ref) for a ref that is absolute, protocol-relative or an absolute path
UrlJoin(base, ref) ==
    IF ref # <<>> /\ ref[1] \in SchemeTokens THEN ref
    ELSE IF ref # <<>> /\ ref[1] \in NetlocTokens THEN <<UrlScheme(base)>> \o ref
    ELSE <<UrlScheme(base), UrlNetloc(base)>> \o ref

\* s.replace('$1', r) with r a token sequence
RECURSIVE Replace1(_, _)
Replace1(s, r) ==
    IF s = <<>> THEN <<>>
    ELSE (IF Head(s) = "$1" THEN r ELSE <<Head(s)>>) \o Replace1(Tail(s), r)

-----------------------------------------------------------------------------
(* Inputs and the server *)

ApiUrl       == <<"https:", "//wiki.example", "/w", "/api.php">>
WikiUrls     == { ApiUrl,
                  <<"https:", "//wiki.example", "/index.php", "?title=api.php">>,
                  <<"https:", "//wiki.example", "/wiki/", "Main_Page">> }

\* href values of <link rel="EditURI">
EditHrefs    == { ApiUrl \o <<"?action=rsd">>,
                  <<"//wiki.example", "/w", "/api.php", "?action=rsd">>,
                  <<"?action=rsd">> }

\* href values of <link rel="stylesheet">
CssHrefs     == { <<"https:", "//wiki.example", "/load.php">>,
                  <<"/load.php">> }

\* A link tag is the object of its attributes; a page is the object of the
\* links soup.find() would return, keyed by rel.
LinkTags(hrefs) == { [href |-> h] : h \in hrefs } \cup { [title |-> <<"x">>] }
WikiPagesHtml ==
    { [EditURI |-> e, stylesheet |-> c] : e \in LinkTags(EditHrefs), c \in LinkTags(CssHrefs) }
    \cup { [EditURI |-> e] : e \in LinkTags(EditHrefs) }
    \cup { [stylesheet |-> c] : c \in LinkTags(CssHrefs) }
    \cup { [body |-> <<"x">>] }

NsTables ==
    { [i \in 1..Len(t) |-> [id |-> t[i]]] :
        t \in { <<-2, -1, 0>>, <<2, -1, 0>>, <<-1>> } }

\* site_info values the server may send in data['query']['general']
SiteInfos == { [server |-> <<"//wiki.example">>, articlepath |-> <<"/wiki/", "$1">>],
               [server |-> <<"https:", "//wiki.example">>, articlepath |-> <<"/wiki/", "$1">>] }

\* decoded siteinfo responses: with and without the 'query' key
SiteInfoResponses ==
    { [query |-> [general |-> g, namespaces |-> t]] : g \in SiteInfos, t \in NsTables }
    \cup { [error |-> <<"badvalue">>] }

\* data['query']['specialpagealiases'] values the server may send
AliasResponses ==
    { [query |-> [specialpagealiases |-> l]] :
        l \in { << [realname |-> "Export", aliases |-> <<"ExportPages">>] >>,
                << [realname |-> "Export", aliases |-> <<"ExportPages", "Export">>],
                   [realname |-> "ExportPages"] >> } }
    \cup { [error |-> <<"badvalue">>] }

-----------------------------------------------------------------------------
(* Listings *)

CursorKey(L)  == IF L = "allpages" THEN "gapcontinue" ELSE "aicontinue"
EntriesKey(L) == IF L = "allpages" THEN "pages" ELSE "allimages"
UrlField(L)   == IF L = "allpages" THEN "fullurl" ELSE "url"
\* the article prefix on the items of both listings
ItemPrefixArticle(L) == "mediawiki-article:"
ItemPrefix(L) == IF L = "allpages" THEN "mediawiki-article:" ELSE "mediawiki-media:"

\* the page of the listing that a request with parameters p asks for
Cursor(L, p) == IF CursorKey(L) \in DOMAIN p THEN p[CursorKey(L)] ELSE 1

\* URLs the server lists on page k
PageUrls(L, p, k) ==
    LET base == IF L = "allpages"
                THEN <<"https:", "//wiki.example", "/wiki/", "ns", ToString(p["gapnamespace"])>>
                ELSE <<"https:", "//wiki.example", "/images/">>
    IN  IF k = 1 THEN << base \o <<"p1a">>, base \o <<"p1b">> >>
        ELSE << base \o <<"p", ToString(k)>> >>

QueryShapes == {"ok", "absent", "nokey", "nourl"}
ContShapes  == {"none", "modern", "modernBare", "legacyOwn", "legacyCat", "legacyMixed", "both"}

\* data['query'] of a response
QueryObject(L, p, k, qs) ==
    LET urls == PageUrls(L, p, k)
        ok   == [i \in 1..Len(urls) |-> (UrlField(L) :> urls[i])]
    IN  CASE qs = "ok"    -> (EntriesKey(L) :> ok)
          [] qs = "nourl" -> (EntriesKey(L) :> Append(ok, [title |-> <<"x">>]))
          [] OTHER        -> [normalized |-> <<>>]

ModernCont(L, k)  == (CursorKey(L) :> k + 1) @@ [continue |-> <<"-||">>]
\* 'query-continue' objects: the listing's own sub-object, as MediaWiki < 1.21
\* sends it; a 'categories' sub-object carrying gapcontinue; and the own
\* sub-object in its older spelling (gapfrom / aifrom)
LegacyOwn(L, k)   == (L :> (CursorKey(L) :> k + 1))
LegacyCat(k)      == [categories |-> [gapcontinue |-> k + 1]]
LegacyFrom(L, k)  == (L :> ((IF L = "allpages" THEN "gapfrom" ELSE "aifrom") :> k + 1))

\* a decoded response to a request for page k
Response(L, p, k, qs, cs) ==
    (IF qs = "absent" THEN <<>> ELSE [query |-> QueryObject(L, p, k, qs)])
    @@
    (CASE cs = "modern"      -> [continue |-> ModernCont(L, k)]
       [] cs = "modernBare"  -> [continue |-> (CursorKey(L) :> k + 1)]
       [] cs = "legacyOwn"   -> ("query-continue" :> LegacyOwn(L, k))
       [] cs = "legacyCat"   -> ("query-continue" :> LegacyCat(k))
       [] cs = "legacyMixed" -> ("query-continue" :> (LegacyCat(k) @@ LegacyFrom(L, k)))
       [] cs = "both"        -> [continue |-> ModernCont(L, k)]
                                @@ ("query-continue" :> LegacyOwn(L, k))
       [] OTHER              -> <<>>)

-----------------------------------------------------------------------------
(* The program *)

Phases == <<"ResolvingEndpoint", "FetchingDescriptor", "EnumeratingNamespaces",
            "EnumeratingMedia", "EnumeratingSpecialPages", "Done">>

Sleep   == [ev |-> "sleep", secs |-> delaySeconds]
Request == [ev |-> "request", secs |-> 0]

\* delay(): time.sleep(delaySeconds)
delay(tr) == Append(tr, Sleep)

\* a wrapper that calls the wrapped function and then delay()
rate_limited_after(tr) == delay(Append(tr, Request))

\* rate_limited(): the wrapper calls delay() and then the wrapped function,
\* which issues its request
rate_limited(tr) == Append(delay(tr), Request)

\* requests.get() raises for a URL without a scheme (MissingSchema)
Fetchable(url) == url # <<>> /\ url[1] \in SchemeTokens

\* params of get_all_pages without the page-size limit
PagesParamsNoLimit(gapnamespace) ==
    [action |-> <<"query">>, generator |-> <<"allpages">>, gapnamespace |-> gapnamespace,
     prop |-> <<"info">>, inprop |-> <<"url">>, format |-> <<"json">>, continue |-> <<>>]

\* params of get_all_pages / get_all_images before the first request
PagesParams(gapnamespace) ==
    [action |-> <<"query">>, generator |-> <<"allpages">>, gapnamespace |-> gapnamespace,
     gaplimit |-> <<"50">>, prop |-> <<"info">>, inprop |-> <<"url">>,
     format |-> <<"json">>, continue |-> <<>>]

ImagesParams ==
    [action |-> <<"query">>, list |-> <<"allimages">>, aiprop |-> <<"url">>,
     ailimit |-> <<"50">>, format |-> <<"json">>, continue |-> <<>>]

\* save_items with the file opened in mode "w"
save_items_overwrite(file, items) == items

\* save_items(items): append one line per item
save_items(file, items) == file \o items

\* get_api_url(wiki_url) on the fetched page: the returned value
EndpointFromPage(page) ==
    IF "EditURI" \in DOMAIN page
    THEN BeforeQuery(page["EditURI"]["href"])
    ELSE IF "stylesheet" \in DOMAIN page /\ "href" \in DOMAIN page["stylesheet"]
         THEN CssApiUrl(page["stylesheet"]["href"])
         ELSE None

\* link['href'] of a tag without href
EndpointRaises(page) == "EditURI" \in DOMAIN page /\ "href" \notin DOMAIN page["EditURI"]

\* "if api_url is None"
NotApiUrlIsNone(u) == u = None

\* main(): "if not api_url"
NotApiUrl(u) == u = None \/ u = <<>>

\* the for-loop without the "continue" for negative ids
NextWalkNoSkip(table, from) == IF from <= Len(table) THEN from ELSE 0

\* the next namespace at or after position from that the for-loop walks (0: none)
NextWalk(table, from) ==
    LET c == { i \in from..Len(table) : ~(table[i]["id"] < 0) }
    IN  IF c = {} THEN 0 ELSE CHOOSE i \in c : \A j \in c : i <= j

\* main(): the for-loop reaches position from; the call of get_all_pages,
\* or of get_all_images after the loop, runs up to its first request
EnterListing(table, from) ==
    LET i == NextWalk(table, from)
    IN  /\ nsIdx' = i
        /\ all_pages' = <<>>
        /\ callNo' = callNo + 1
        /\ IF i # 0
           THEN /\ phase' = "EnumeratingNamespaces"
                /\ params' = PagesParams(table[i]["id"])
                /\ walked' = Append(walked, table[i]["id"])
           ELSE /\ phase' = "EnumeratingMedia"
                /\ params' = ImagesParams
                /\ walked' = walked

\* an exception leaves main(): nothing else of the run happens
Raise(e) ==
    /\ halt' = e
    /\ UNCHANGED <<phase, api_url, template_url, namespaces, nsIdx, params,
                   sink, callNo, walked, results>>

Count(kind) == [issued EXCEPT ![kind] = @ + 1]

\* main() up to the call of get_site_info: get_api_url and the check of its result
ResolveEndpoint ==
    /\ phase = "ResolvingEndpoint" /\ halt = "no"
    /\ UNCHANGED <<wiki_url, argDelay, delaySeconds, sink0, histNo, fetched, lastReq, modernSoFar,
                   data, all_pages, firstData, special_pages_raw, sink2>>
    /\ callee' = "get_api_url"
    /\ IF HasApiPhp(wiki_url)
       THEN /\ api_url' = wiki_url
            /\ phase' = "FetchingDescriptor"
            /\ trace' = <<>>
            /\ soup' = <<>>
            /\ UNCHANGED <<halt, template_url, namespaces, nsIdx, params,
                           sink, callNo, issued, phaseLog, walked, results>>
       ELSE /\ issued' = Count("page")
            /\ phaseLog' = Collapse(phaseLog, phase)
            /\ \/ /\ trace' = <<Request>>
                  /\ Raise("RequestException")
                  /\ UNCHANGED <<api_url, soup>>
               \/ \E page \in WikiPagesHtml :
                    /\ soup' = page
                    /\ IF EndpointRaises(page)
                       THEN /\ trace' = <<Request>>
                            /\ Raise("KeyError")
                            /\ UNCHANGED api_url
                       ELSE /\ trace' = IF "EditURI" \in DOMAIN page THEN <<Request>>
                                        ELSE delay(<<Request>>)
                            /\ api_url' = EndpointFromPage(page)
                            /\ IF NotApiUrl(api_url')
                               THEN /\ phase' = "Aborted"
                                    /\ halt' = "return"
                               ELSE /\ phase' = "FetchingDescriptor"
                                    /\ halt' = halt
                            /\ UNCHANGED <<template_url, namespaces, nsIdx, params,
                                           sink, callNo, walked, results>>

\* get_site_info(api_url) and main() up to the first request of the first listing
FetchDescriptor ==
    /\ phase = "FetchingDescriptor" /\ halt = "no"
    /\ UNCHANGED <<wiki_url, argDelay, delaySeconds, sink0, histNo, fetched, lastReq, modernSoFar,
                   data, firstData, special_pages_raw, sink2>>
    /\ callee' = "get_site_info"
    /\ soup' = <<>>
    /\ trace' = rate_limited(<<>>)
    /\ issued' = Count("siteinfo")
    /\ phaseLog' = Collapse(phaseLog, phase)
    /\ \/ /\ Raise("RequestException")
          /\ UNCHANGED <<api_url, all_pages>>
       \/ /\ Fetchable(api_url)
          /\ \E d \in SiteInfoResponses :
               IF "query" \notin DOMAIN d
               THEN /\ Raise("KeyError")
                    /\ UNCHANGED <<api_url, all_pages>>
               ELSE LET site_info  == d["query"]["general"]
                        server_url == UrlJoin(api_url, site_info["server"])
                    IN  /\ namespaces' = d["query"]["namespaces"]
                        /\ template_url' = UrlJoin(server_url, site_info["articlepath"])
                        /\ EnterListing(namespaces', 1)
                        /\ UNCHANGED <<halt, api_url, sink, results>>

\* the entries of d that the loop over data['query'][...] appends before it
\* ends or raises
RECURSIVE Extract(_, _)
Extract(L, entries) ==
    IF entries = <<>> \/ UrlField(L) \notin DOMAIN Head(entries) THEN <<>>
    ELSE << <<ItemPrefix(L)>> \o Head(entries)[UrlField(L)] >> \o Extract(L, Tail(entries))

\* the items a response contributes
Extracted(L, d) ==
    IF "query" \in DOMAIN d /\ EntriesKey(L) \in DOMAIN d["query"]
    THEN Extract(L, d["query"][EntriesKey(L)])
    ELSE <<>>

\* the extraction loop raises KeyError
ExtractRaises(L, d) ==
    /\ "query" \in DOMAIN d
    /\ \/ EntriesKey(L) \notin DOMAIN d["query"]
       \/ \E i \in 1..Len(d["query"][EntriesKey(L)]) :
            UrlField(L) \notin DOMAIN d["query"][EntriesKey(L)][i]

\* the sub-object named after the walk's own listing
LegacyKeyOwn(L) == L

\* the sub-object of 'query-continue' that the walk merges
LegacyKey(L) == "categories"

\* the choice without the branch for 'continue'
ContinuationLegacyOnly(L, d) ==
    IF "query-continue" \in DOMAIN d
    THEN IF LegacyKey(L) \in DOMAIN d["query-continue"]
         THEN [do |-> "update", with |-> d["query-continue"][LegacyKey(L)]]
         ELSE [do |-> "raise", with |-> <<>>]
    ELSE [do |-> "break", with |-> <<>>]

\* the three-way choice after the pause: what is merged into params
\* ("raise": the lookup of the sub-object raises KeyError, "break": nothing)
Continuation(L, d) ==
    IF "continue" \in DOMAIN d THEN [do |-> "update", with |-> d["continue"]]
    ELSE IF "query-continue" \in DOMAIN d
         THEN IF LegacyKey(L) \in DOMAIN d["query-continue"]
              THEN [do |-> "update", with |-> d["query-continue"][LegacyKey(L)]]
              ELSE [do |-> "raise", with |-> <<>>]
         ELSE [do |-> "break", with |-> <<>>]

\* main() with the media enumeration inside the for-loop
MainAfterListingMediaInLoop(L) ==
    IF L = "allpages"
    THEN /\ phase' = "EnumeratingMedia"
         /\ params' = ImagesParams
         /\ all_pages' = <<>>
         /\ callNo' = callNo + 1
         /\ UNCHANGED <<nsIdx, walked>>
    ELSE IF nsIdx # 0 /\ NextWalk(namespaces, nsIdx + 1) # 0
         THEN EnterListing(namespaces, nsIdx + 1)
         ELSE /\ phase' = "EnumeratingSpecialPages"
              /\ all_pages' = <<>>
              /\ UNCHANGED <<nsIdx, params, callNo, walked>>

\* main() after the save_items of a listing: the next namespace of the
\* for-loop, get_all_images after the loop, get_special_pages after the media
MainAfterListing(L) ==
    IF L = "allpages"
    THEN EnterListing(namespaces, nsIdx + 1)
    ELSE /\ phase' = "EnumeratingSpecialPages"
         /\ all_pages' = <<>>
         /\ UNCHANGED <<nsIdx, params, callNo, walked>>

WalkPhase(L) == IF L = "allpages" THEN "EnumeratingNamespaces" ELSE "EnumeratingMedia"
WalkFn(L)    == IF L = "allpages" THEN "get_all_pages" ELSE "get_all_images"

\* One iteration of the while-loop of get_all_pages / get_all_images; when the
\* loop breaks, also the return, main()'s save_items and the code up to the
\* first request of what main() does next.
WalkStep(L) ==
    LET first == histNo # callNo
        rq    == IF first THEN <<>> ELSE fetched
        tr    == IF first THEN <<>> ELSE trace
    IN
    /\ phase = WalkPhase(L) /\ halt = "no"
    /\ UNCHANGED <<wiki_url, argDelay, delaySeconds, sink0, api_url, template_url, namespaces,
                   soup, special_pages_raw>>
    /\ histNo' = callNo
    /\ callee' = WalkFn(L)
    /\ fetched' = Append(rq, Cursor(L, params))
    /\ lastReq' = params
    /\ issued' = Count(L)
    /\ phaseLog' = Collapse(phaseLog, phase)
    /\ \/ /\ halt' = "RequestException"
          /\ trace' = Append(tr, Request)
          /\ modernSoFar' = FALSE
          /\ firstData' = IF first THEN <<>> ELSE firstData
          /\ UNCHANGED <<phase, nsIdx, params, all_pages, data, sink, sink2, callNo, walked,
                         results>>
       \/ \E qs \in QueryShapes, cs \in ContShapes :
            /\ cs # "none" => Len(rq) + 1 < MaxReqs
            /\ LET d    == Response(L, params, Cursor(L, params), qs, cs)
                   next == Continuation(L, d)
                   got  == all_pages \o Extracted(L, d)
               IN  /\ data' = d
                   /\ firstData' = IF first THEN d ELSE firstData
                   /\ modernSoFar' = /\ (first \/ modernSoFar)
                                      /\ "query" \in DOMAIN d /\ ~ExtractRaises(L, d)
                                      /\ ("continue" \in DOMAIN d \/ "query-continue" \notin DOMAIN d)
                   /\ all_pages' = IF next.do = "break" /\ ~ExtractRaises(L, d)
                                   THEN <<>> ELSE got
                   /\ IF ExtractRaises(L, d)
                      THEN /\ halt' = "KeyError"
                           /\ trace' = Append(tr, Request)
                           /\ UNCHANGED <<phase, nsIdx, params, sink, sink2, callNo, walked,
                                          results>>
                      ELSE /\ trace' = delay(Append(tr, Request))
                           /\ CASE next.do = "update" ->
                                     /\ params' = Update(params, next.with)
                                     /\ UNCHANGED <<halt, phase, nsIdx, sink, sink2, callNo,
                                                    walked, results>>
                                [] next.do = "raise" ->
                                     /\ halt' = "KeyError"
                                     /\ UNCHANGED <<phase, nsIdx, params, sink, sink2, callNo,
                                                    walked, results>>
                                [] OTHER ->
                                     /\ results' = Append(results, got)
                                     /\ sink' = save_items(sink, got)
                                     /\ sink2' = save_items(sink2, got)
                                     /\ halt' = halt
                                     /\ MainAfterListing(L)

GetAllPagesStep  == WalkStep("allpages")
GetAllImagesStep == WalkStep("allimages")

\* the orders in which iterating a set can yield its elements
Orders(S) ==
    { s \in [1..Cardinality(S) -> S] : \A i, j \in 1..Cardinality(S) : i # j => s[i] # s[j] }

\* special_pages without the aliases
SpecialNamesRealOnly(entries) == { entries[i]["realname"] : i \in 1..Len(entries) }

\* special_pages: every realname and every alias of every entry
SpecialNames(entries) ==
    { entries[i]["realname"] : i \in 1..Len(entries) }
    \cup UNION { { entries[i]["aliases"][j] : j \in 1..Len(entries[i]["aliases"]) } :
                 i \in { n \in 1..Len(entries) : "aliases" \in DOMAIN entries[n] } }

\* the set items built by get_special_pages
SpecialItems(entries, template) ==
    { <<"mediawiki-special:">> \o Replace1(template, <<"Special:", n>>) :
        n \in SpecialNames(entries) }

\* get_special_pages(api_url, template_url), main()'s save_items of its result
\* and the end of main()
GetSpecialPages ==
    /\ phase = "EnumeratingSpecialPages" /\ halt = "no"
    /\ UNCHANGED <<wiki_url, argDelay, delaySeconds, sink0, api_url, template_url, namespaces,
                   nsIdx, params, all_pages, data, callNo, histNo, fetched, lastReq,
                   modernSoFar, walked, soup, firstData>>
    /\ callee' = "get_special_pages"
    /\ trace' = rate_limited(<<>>)
    /\ issued' = Count("specialpagealiases")
    /\ phaseLog' = Collapse(phaseLog, phase)
    /\ \/ /\ halt' = "RequestException"
          /\ UNCHANGED <<phase, sink, sink2, results, special_pages_raw>>
       \/ \E d \in AliasResponses :
            IF "query" \notin DOMAIN d
            THEN /\ halt' = "KeyError"
                 /\ UNCHANGED <<phase, sink, sink2, results, special_pages_raw>>
            ELSE \E items, items2 \in Orders(SpecialItems(d["query"]["specialpagealiases"],
                                                          template_url)) :
                    /\ special_pages_raw' = d["query"]["specialpagealiases"]
                    /\ results' = Append(results, items)
                    /\ sink' = save_items(sink, items)
                    /\ sink2' = save_items(sink2, items2)
                    /\ phase' = "Done"
                    /\ halt' = halt

-----------------------------------------------------------------------------
(* Specification *)

\* args.delay: absent, or the value given on the command line
DelayArgs == { <<>>, <<2>> }

\* items.txt before the run: it holds the lines of an earlier run
OldSinks == { << <<"mediawiki-article:", "https:", "//old.example", "/wiki/", "Old">> >> }

Init ==
    /\ wiki_url \in WikiUrls
    /\ argDelay \in DelayArgs
    /\ delaySeconds = 0
    /\ phase = "ResolvingEndpoint"
    /\ halt = "no"
    /\ api_url = None
    /\ template_url = <<>>
    /\ namespaces = <<>>
    /\ nsIdx = 0
    /\ params = <<>>
    /\ all_pages = <<>>
    /\ data = <<>>
    /\ sink \in OldSinks
    /\ sink0 = sink
    /\ sink2 = sink
    /\ soup = <<>>
    /\ firstData = <<>>
    /\ special_pages_raw = <<>>
    /\ callNo = 0
    /\ histNo = 0
    /\ callee = "none"
    /\ fetched = <<>>
    /\ lastReq = <<>>
    /\ modernSoFar = TRUE
    /\ trace = <<>>
    /\ issued = [page |-> 0, siteinfo |-> 0, allpages |-> 0, allimages |-> 0,
                 specialpagealiases |-> 0]
    /\ phaseLog = <<>>
    /\ walked = <<>>
    /\ results = <<>>

Next ==
    \/ ResolveEndpoint
    \/ FetchDescriptor
    \/ GetAllPagesStep
    \/ GetAllImagesStep
    \/ GetSpecialPages

Spec == Init /\ [][Next]_vars

-----------------------------------------------------------------------------
(* Vocabulary of the properties *)

WalkPhases == {"EnumeratingNamespaces", "EnumeratingMedia"}

\* the listing of walk histNo
HistListing == IF "generator" \in DOMAIN lastReq THEN "allpages" ELSE "allimages"

\* walk histNo has issued a request and will issue another
WalkInProgress == histNo > 0 /\ histNo = callNo /\ phase \in WalkPhases /\ halt = "no"

\* walk histNo has returned to main()
WalkDone == histNo > 0 /\ (histNo < callNo \/ phase \in {"EnumeratingSpecialPages", "Done"})

\* the latest request of walk histNo got no response
WalkTransportError ==
    histNo > 0 /\ histNo = callNo /\ phase \in WalkPhases /\ halt = "RequestException"

\* what walk histNo returned
Returned == results[histNo]

HasContinuation(d) == "continue" \in DOMAIN d \/ "query-continue" \in DOMAIN d

\* a response lacks the expected structure
MissingStructure(L, d) ==
    \/ "query" \notin DOMAIN d
    \/ EntriesKey(L) \notin DOMAIN d["query"]
    \/ \E i \in 1..Len(d["query"][EntriesKey(L)]) :
         UrlField(L) \notin DOMAIN d["query"][EntriesKey(L)][i]

Iota(n) == [i \in 1..n |-> i]

\* the items of pages 1..n of the listing that requests like p ask for, in server order
RECURSIVE ServerItems(_, _, _)
ServerItems(L, p, n) ==
    IF n = 0 THEN <<>>
    ELSE ServerItems(L, p, n - 1)
         \o [i \in 1..Len(PageUrls(L, p, n)) |-> <<ItemPrefix(L)>> \o PageUrls(L, p, n)[i]]

PhaseIndex(ph) == CHOOSE i \in 1..Len(Phases) : Phases[i] = ph

\* the non-negative ids of a namespace table, in table order
NonNegIds(table) == SelectSeq([i \in 1..Len(table) |-> table[i]["id"]], LAMBDA x : x >= 0)

\* listings whose walk has returned and whose items main() has handed to save_items
CompletedListings ==
    CASE phase \in WalkPhases -> callNo - 1
      [] phase = "EnumeratingSpecialPages" -> callNo
      [] phase = "Done" -> callNo + 1
      [] OTHER -> 0

NoEnumerationRequest ==
    /\ issued["allpages"] = 0 /\ issued["allimages"] = 0 /\ issued["specialpagealiases"] = 0
    /\ callNo = 0

\* the names (realname or alias) that occur in the entries the server sent
NamesSent ==
    { n \in {"Export", "ExportPages"} :
        \E i \in 1..Len(special_pages_raw) :
          \/ special_pages_raw[i]["realname"] = n
          \/ /\ "aliases" \in DOMAIN special_pages_raw[i]
             /\ \E j \in 1..Len(special_pages_raw[i]["aliases"]) :
                  special_pages_raw[i]["aliases"][j] = n }

\* the template with every $1 replaced by Special:<n>
Substituted(n) ==
    Flatten([i \in 1..Len(template_url) |->
               IF template_url[i] = "$1" THEN <<"Special:", n>> ELSE <<template_url[i]>>])

\* the functions wrapped by rate_limited
SingleShot == {"get_site_info", "get_special_pages"}

\* the first response of walk histNo was extracted and carries only
\* 'query-continue', with a 'categories' sub-object that has gapcontinue
LegacyCategoriesFirst ==
    /\ histNo > 0
    /\ "continue" \notin DOMAIN firstData
    /\ "query-continue" \in DOMAIN firstData
    /\ "categories" \in DOMAIN firstData["query-continue"]
    /\ "gapcontinue" \in DOMAIN firstData["query-continue"]["categories"]
    /\ ~ExtractRaises(HistListing, firstData)

\* the list handed to save_items holds every element of want once and nothing else
ExactlyOnce(items, want) ==
    /\ { items[i] : i \in 1..Len(items) } = want
    /\ Len(items) = Cardinality(want)

-----------------------------------------------------------------------------
(* Properties *)

\* C1: in a walk whose responses all have a well-formed query and, up to the
\* last one, a modern 'continue' object, the requests ask for pages 1, 2, ...
\* in order; the walk goes on exactly while the latest response carries
\* 'continue' and then requests with the previous parameter set merged with
\* that object; once it has returned after N requests, it has returned the
\* items of pages 1..N in server order.
C1_ModernWalk ==
    (histNo > 0 /\ modernSoFar) =>
        /\ fetched = Iota(Len(fetched))
        /\ WalkInProgress \/ WalkDone
        /\ WalkInProgress <=> "continue" \in DOMAIN data
        /\ WalkInProgress => params = Update(lastReq, data["continue"])
        /\ WalkDone => Returned = ServerItems(HistListing, lastReq, Len(fetched))

C1_Witness ==
    /\ histNo > 0 /\ modernSoFar /\ WalkDone
    /\ Len(fetched) >= 2
    /\ Len(Returned) >= 3

\* C2 (as claimed): whatever continuation each response carries, a walk asks
\* for every page once, in order, is not ended by an error, and returns exactly
\* at the response that carries no continuation.
C2_Original ==
    (histNo > 0 /\ ~WalkTransportError /\ ~ExtractRaises(HistListing, data)) =>
        /\ fetched = Iota(Len(fetched))
        /\ WalkInProgress \/ WalkDone
        /\ WalkDone <=> ~HasContinuation(data)

\* C3 (as claimed): a response that lacks the expected structure raises no
\* error and contributes nothing; the walk goes on when the response carries a
\* continuation and returns otherwise.  Stated for responses whose
\* continuation, if any, is modern.
C3_Original ==
    (/\ histNo > 0 /\ ~WalkTransportError
     /\ MissingStructure(HistListing, data)
     /\ "query-continue" \notin DOMAIN data) =>
        /\ IF "continue" \in DOMAIN data THEN WalkInProgress ELSE WalkDone
        /\ (WalkInProgress /\ Len(fetched) = 1) => all_pages = <<>>
        /\ (WalkDone /\ Len(fetched) = 1) => Returned = <<>>

\* C4: every request of a walk, and the parameter set the next request will be
\* issued with, carries gaplimit (article walk) or ailimit (media walk) = 50.
C4_LimitOnEveryRequest ==
    LET Limited(p) ==
            IF "generator" \in DOMAIN p
            THEN "gaplimit" \in DOMAIN p /\ p["gaplimit"] = <<"50">>
            ELSE "ailimit" \in DOMAIN p /\ p["ailimit"] = <<"50">>
    IN  /\ histNo > 0 => Limited(lastReq)
        /\ (phase \in WalkPhases /\ halt = "no") => Limited(params)

C4_Witness ==
    /\ WalkInProgress
    /\ "query-continue" \in DOMAIN data /\ "continue" \notin DOMAIN data
    /\ params # lastReq

\* C5 (as claimed): every request of a walk carries 'continue' with an empty value.
C5_Original ==
    histNo > 0 => ("continue" \in DOMAIN lastReq /\ lastReq["continue"] = <<>>)

\* C5 (amended): every request of a walk carries the 'continue' parameter; its
\* value is empty in the first request, and in a follow-up request it is the
\* value of the 'continue' key of the continuation object just merged when
\* that object has one, else the value the previous request carried.
C5_ContinueParameter ==
    /\ histNo > 0 => "continue" \in DOMAIN lastReq
    /\ (histNo > 0 /\ Len(fetched) = 1) => lastReq["continue"] = <<>>
    /\ (phase \in WalkPhases /\ halt = "no") => "continue" \in DOMAIN params
    /\ WalkInProgress =>
         params["continue"] =
            IF "continue" \in DOMAIN data /\ "continue" \in DOMAIN data["continue"]
            THEN data["continue"]["continue"]
            ELSE lastReq["continue"]

C5_Witness ==
    /\ histNo > 0 /\ Len(fetched) >= 2
    /\ lastReq["continue"] = <<"-||">>

\* C6: the requests and sink writes of a run happen in the order of the
\* phases; a run that reaches Done has called get_all_images once and
\* get_special_pages once; main() returns early only from endpoint resolution,
\* and a run ended during resolution or the descriptor fetch has issued no
\* enumeration request.
C6_PhaseOrder ==
    /\ \A i, j \in 1..Len(phaseLog) :
         i < j => PhaseIndex(phaseLog[i]) < PhaseIndex(phaseLog[j])
    /\ phase = "Done" =>
         /\ callNo - Len(walked) = 1
         /\ issued["allimages"] >= 1
         /\ issued["specialpagealiases"] = 1
    /\ phase = "Aborted" <=> halt = "return"
    /\ phase = "Aborted" => phaseLog = <<"ResolvingEndpoint">>
    /\ (halt # "no" /\ phase \in {"Aborted", "ResolvingEndpoint", "FetchingDescriptor"})
         => NoEnumerationRequest

C6_Witness ==
    /\ phase = "Done" /\ halt = "no"
    /\ phaseLog = SubSeq(Phases, 1, 5)
    /\ Len(walked) = 2

\* C7: the article walks run so far are the non-negative ids of the namespace
\* table, in table order, each once; after the loop all of them have run; no
\* allpages request names a negative namespace.
C7_NamespaceWalks ==
    LET want == NonNegIds(namespaces)
    IN  /\ Len(walked) <= Len(want)
        /\ walked = SubSeq(want, 1, Len(walked))
        /\ phase \in {"EnumeratingMedia", "EnumeratingSpecialPages", "Done"} => walked = want
        /\ (phase = "EnumeratingNamespaces" /\ halt = "no")
             => params["gapnamespace"] = Last(walked)
        /\ (histNo > 0 /\ "gapnamespace" \in DOMAIN lastReq)
             => /\ lastReq["gapnamespace"] >= 0
                /\ \E i \in 1..Len(walked) : walked[i] = lastReq["gapnamespace"]

C7_Witness ==
    /\ phase = "EnumeratingMedia"
    /\ walked = <<2, 0>>
    /\ Len(namespaces) = 3

\* C8: at every point of the run, also after a fatal error, the sink holds
\* its old lines followed by the items of every listing completed so far, in
\* order: each listing is written before the next listing's first request.
C8_IncrementalFlush ==
    /\ Len(results) = CompletedListings
    /\ sink = sink0 \o Flatten(results)

C8_Witness ==
    /\ phase = "EnumeratingMedia" /\ halt = "RequestException"
    /\ Len(results) = 2
    /\ results[1] # <<>> /\ results[2] # <<>>

\* C9: when get_api_url has found no endpoint, main() has returned, the sink
\* is as it was and no siteinfo, listing or special-page request has been issued.
C9_ResolutionFailure ==
    (phase # "ResolvingEndpoint" /\ api_url \in {None, <<>>}) =>
        /\ halt = "return"
        /\ sink = sink0 /\ results = <<>>
        /\ issued["siteinfo"] = 0
        /\ NoEnumerationRequest

C9_Witness ==
    /\ phase = "Aborted" /\ api_url = None
    /\ issued["page"] = 1
    /\ sink # <<>>

\* C10: for a URL containing "api.php", get_api_url returns the URL itself,
\* issues no request and sleeps for no pause.
C10_FastPath ==
    ((\E i \in 1..Len(wiki_url) : wiki_url[i] \in MarkerTokens) /\ phase # "ResolvingEndpoint") =>
        /\ api_url = wiki_url
        /\ issued["page"] = 0
        /\ callee = "get_api_url" => trace = <<>>
        /\ \A i \in 1..Len(phaseLog) : phaseLog[i] # "ResolvingEndpoint"

C10_Witness ==
    /\ phase = "FetchingDescriptor" /\ callee = "get_api_url"
    /\ Last(wiki_url) = "?title=api.php"
    /\ api_url = wiki_url

\* C11: when get_api_url has fetched a page for a URL without the marker, the
\* result is the target of the page's EditURI link with its query stripped if
\* the page has such a link (also when it has a stylesheet link), else
\* <scheme>://<host>/api.php of the stylesheet link's URL, else None; and
\* every result that main() takes for an endpoint (not None, not empty)
\* starts with a scheme and a host.
C11_Original ==
    (callee = "get_api_url" /\ soup # <<>> /\ halt # "KeyError") =>
        LET edit == "EditURI" \in DOMAIN soup
            css  == "stylesheet" \in DOMAIN soup /\ "href" \in DOMAIN soup["stylesheet"]
        IN  /\ edit => api_url = SelectSeq(soup["EditURI"]["href"],
                                           LAMBDA t : t \notin QueryTokens)
            /\ (~edit /\ css) => Len(api_url) = 3 /\ api_url[3] = "/api.php"
            /\ (~edit /\ ~css) => api_url = None
            /\ api_url \notin {None, <<>>} =>
                 /\ Len(api_url) >= 2
                 /\ api_url[1] \in SchemeTokens
                 /\ api_url[2] \in NetlocTokens

\* C12 as stated: every line the run has appended to the sink begins with
\* one of the kinds article:, media:, special:.
C12_Original ==
    \A i \in (Len(sink0) + 1)..Len(sink) : sink[i][1] \in {"article:", "media:", "special:"}

\* C12: every line the run has appended is an item handed to save_items, and
\* every such item is a kind followed by a URL: mediawiki-article: and the
\* fullurl of an entry of that namespace's listing, mediawiki-media: and the
\* url of an entry of the image listing, or mediawiki-special: and the
\* template with $1 replaced by Special:<name>; the items a walk has
\* collected from a well-formed first page are exactly that page's entries,
\* in order, each with its listing's kind.
C12_ItemFormat ==
    /\ sink = sink0 \o Flatten(results)
    /\ \A i \in 1..Len(results) : \A j \in 1..Len(results[i]) :
         LET item == results[i][j]
         IN  IF i <= Len(walked)
             THEN /\ Head(item) = "mediawiki-article:"
                  /\ \E k \in 1..MaxReqs :
                       \E n \in 1..Len(PageUrls("allpages", [gapnamespace |-> walked[i]], k)) :
                         Tail(item) = PageUrls("allpages", [gapnamespace |-> walked[i]], k)[n]
             ELSE IF i = Len(walked) + 1
             THEN /\ Head(item) = "mediawiki-media:"
                  /\ \E k \in 1..MaxReqs :
                       \E n \in 1..Len(PageUrls("allimages", <<>>, k)) :
                         Tail(item) = PageUrls("allimages", <<>>, k)[n]
             ELSE /\ Head(item) = "mediawiki-special:"
                  /\ \E n \in {"Export", "ExportPages"} :
                       Tail(item) = Replace1(template_url, <<"Special:", n>>)
    /\ (WalkInProgress /\ Len(fetched) = 1 /\ ~MissingStructure(HistListing, data)) =>
         LET entries == data["query"][EntriesKey(HistListing)]
             kind    == IF HistListing = "allpages" THEN "mediawiki-article:"
                        ELSE "mediawiki-media:"
         IN  all_pages = [i \in 1..Len(entries) |->
                            <<kind>> \o entries[i][UrlField(HistListing)]]

C12_Witness ==
    /\ phase = "Done"
    /\ walked # <<>>
    /\ results[1] # <<>>
    /\ results[Len(walked) + 1] # <<>>
    /\ Len(results) = Len(walked) + 2
    /\ Last(results) # <<>>

\* C13 as stated: once get_special_pages has returned, the items written for
\* it are exactly the set of special: followed by the template with $1
\* replaced by Special:<n>, n ranging over the names the server sent, each
\* once, and none contains $1.
C13_Original ==
    phase = "Done" =>
        /\ ExactlyOnce(Last(results), { <<"special:">> \o Substituted(n) : n \in NamesSent })
        /\ \A i \in 1..Len(Last(results)) : \A j \in 1..Len(Last(results)[i]) :
             Last(results)[i][j] # "$1"

\* C13: once get_special_pages has returned, the items written for it are
\* exactly the set of mediawiki-special: followed by the template with $1
\* replaced by Special:<n>, n ranging over the realnames and aliases the
\* server sent: each once, also when a name is sent several times, no other
\* item, and no item contains $1.
C13_SpecialPages ==
    phase = "Done" =>
        /\ ExactlyOnce(Last(results),
                       { <<"mediawiki-special:">> \o Substituted(n) : n \in NamesSent })
        /\ \A i \in 1..Len(Last(results)) : \A j \in 1..Len(Last(results)[i]) :
             Last(results)[i][j] # "$1"
        /\ \E i \in 1..Len(template_url) : template_url[i] = "$1"

C13_Witness ==
    /\ phase = "Done"
    /\ Len(special_pages_raw) = 2
    /\ "Export" \in { special_pages_raw[1]["aliases"][j] :
                        j \in 1..Len(special_pages_raw[1]["aliases"]) }
    /\ special_pages_raw[1]["realname"] = "Export"
    /\ Len(Last(results)) = 2

\* C14: a second run that is given the same server responses as this run,
\* starting from the same sink, has appended the same items in the same
\* order, the special-page items included.
C14_Original == sink2 = sink

\* C15: every pause of the run lasts the value given with the delay flag, or
\* 0 when the flag was not given.
C15_Original ==
    \A i \in 1..Len(trace) :
        trace[i]["ev"] = "sleep" =>
            trace[i]["secs"] = (IF argDelay = <<>> THEN 0 ELSE argDelay[1])

\* C16: after every response of a walk that was decoded and extracted, the
\* cursor is resolved three ways in this order: if the response carries
\* 'continue', the walk goes on with all of its keys merged and nothing of
\* 'query-continue'; else, if it carries 'query-continue', the walk goes on
\* with the keys of exactly one of its sub-objects merged; else the walk
\* returns. So the walk has ended exactly if the response carries neither.
C16_Original ==
    (histNo > 0 /\ ~WalkTransportError /\ ~ExtractRaises(HistListing, data)) =>
        /\ "continue" \in DOMAIN data =>
             /\ WalkInProgress
             /\ DOMAIN params = DOMAIN lastReq \cup DOMAIN data["continue"]
             /\ \A k \in DOMAIN params :
                  params[k] = IF k \in DOMAIN data["continue"] THEN data["continue"][k]
                              ELSE lastReq[k]
        /\ ("continue" \notin DOMAIN data /\ "query-continue" \in DOMAIN data) =>
             /\ WalkInProgress
             /\ \E sub \in DOMAIN data["query-continue"] :
                  LET c == data["query-continue"][sub]
                  IN  /\ DOMAIN params = DOMAIN lastReq \cup DOMAIN c
                      /\ \A k \in DOMAIN params :
                           params[k] = IF k \in DOMAIN c THEN c[k] ELSE lastReq[k]
        /\ ~HasContinuation(data) => WalkDone
        /\ ~WalkInProgress => ~HasContinuation(data)

\* C17: after a response of a walk that carries only 'query-continue', with
\* the sub-object of the walk's own listing in it, the walk goes on and its
\* next parameter set is the previous one merged with exactly the pairs of
\* that sub-object: no key of any other sub-object, and no error.
C17_Original ==
    (/\ histNo > 0 /\ ~WalkTransportError /\ ~ExtractRaises(HistListing, data)
     /\ "continue" \notin DOMAIN data
     /\ "query-continue" \in DOMAIN data
     /\ HistListing \in DOMAIN data["query-continue"]) =>
        LET own == data["query-continue"][HistListing]
        IN  /\ WalkInProgress
            /\ DOMAIN params = DOMAIN lastReq \cup DOMAIN own
            /\ \A k \in DOMAIN params :
                 params[k] = IF k \in DOMAIN own THEN own[k] ELSE lastReq[k]

\* C18: in a walk whose first response carries only 'query-continue' with a
\* 'categories' sub-object holding gapcontinue (alone or next to other
\* sub-objects), the walk goes on after the first response, its second
\* request carries the parameters of the first plus exactly the keys of the
\* 'categories' sub-object, and when the second response carries no
\* continuation the walk returns after these two requests.
C18_LegacyCategories ==
    LegacyCategoriesFirst =>
        LET cat   == firstData["query-continue"]["categories"]
            req1  == IF HistListing = "allpages" THEN PagesParams(lastReq["gapnamespace"])
                     ELSE ImagesParams
            req2  == [k \in DOMAIN req1 \cup DOMAIN cat |->
                        IF k \in DOMAIN cat THEN cat[k] ELSE req1[k]]
        IN  /\ Len(fetched) = 1 => (lastReq = req1 /\ WalkInProgress /\ params = req2)
            /\ Len(fetched) = 2 => lastReq = req2
            /\ WalkDone => Len(fetched) >= 2
            /\ (/\ Len(fetched) = 2 /\ ~WalkTransportError
                /\ ~ExtractRaises(HistListing, data) /\ ~HasContinuation(data)) => WalkDone

C18_Witness ==
    /\ LegacyCategoriesFirst
    /\ Cardinality(DOMAIN firstData["query-continue"]) = 2
    /\ WalkDone
    /\ Len(fetched) = 2
    /\ ~HasContinuation(data)
    /\ "gapcontinue" \in DOMAIN lastReq

\* C19 as stated: a call of a rate-limited single-shot query whose request
\* has completed consists of the request followed by one pause.
C19_Original ==
    (callee \in SingleShot /\ halt # "RequestException") =>
        /\ Len(trace) = 2
        /\ trace[1]["ev"] = "request"
        /\ trace[2]["ev"] = "sleep"

\* C19: every call of a rate-limited single-shot query (site descriptor,
\* special-page aliases) consists of exactly one pause followed by the
\* query's one request: the pause comes before the request, not after it.
C19_PauseBeforeRequest ==
    callee \in SingleShot =>
        /\ Len(trace) = 2
        /\ trace[1]["ev"] = "sleep"
        /\ trace[2]["ev"] = "request"
        /\ issued["siteinfo"] = 1
        /\ issued["specialpagealiases"] = (IF callee = "get_special_pages" THEN 1 ELSE 0)

C19_Witness ==
    /\ callee = "get_special_pages"
    /\ phase = "Done"
    /\ Len(trace) = 2
    /\ issued["siteinfo"] = 1

\* C20: in every walk the requests and pauses alternate, beginning with a
\* request: every page received, also the last one and one that lacks the
\* expected structure, is followed by exactly one pause before the walk
\* resolves the cursor, so after P pages the walk has paused P times and no
\* two requests follow each other without a pause.
C20_Original ==
    (callee \in {"get_all_pages", "get_all_images"} /\ halt # "RequestException") =>
        /\ Len(trace) = 2 * Len(fetched)
        /\ \A i \in 1..Len(trace) :
             trace[i]["ev"] = (IF i % 2 = 1 THEN "request" ELSE "sleep")

====
